---------------------------- MODULE Spec2Model ----------------------------
(***************************************************************************)
(* A model of birthstar.py: the Star class, years_since_date,              *)
(* get_star_from_years and main.                                           *)
(*                                                                         *)
(* Representation of Python values                                         *)
(*  - A float is a fixed-point integer.  Years, light-years and parsecs    *)
(*    are counted in units of 1/Resolution (1e-5); a number of days        *)
(*    (the argument of datetime.timedelta) and the time of day are counted *)
(*    in units of 1/DayTicks of a day; a color index and a magnitude are   *)
(*    counted in hundredths.  Every float multiplication and division is   *)
(*    rounded to the nearest unit (FMulDiv), as a float operation rounds   *)
(*    to the nearest representable value.                                  *)
(*  - A date is its proleptic Gregorian ordinal (date.toordinal()); a      *)
(*    datetime is <<ordinal, time of day>>.                                *)
(*  - An optional constructor argument that is either '' or a number is    *)
(*    <<>> for '' and <<n>> for the number n; strings are strings.         *)
(*  - The outcome of a call is [kind |-> "return" | "raise", val |-> ...], *)
(*    val being the returned value or the name of the exception; ret keeps *)
(*    it with the function's name, its arguments and the clock at its end. *)
(***************************************************************************)
EXTENDS Integers, Sequences, FiniteSets, TLC

VARIABLES
    CONST_ABBREV,   \* the module-level dict of line 16
    catalog,        \* rows of the table "stars" of stars.db, in storage order
    now,            \* the system clock: <<ordinal of the day, time of day>>
    pc,             \* the line main (or the caller of the API) is at
    conn,           \* the sqlite3 connection of main: "none", "open", "closed"
    date_object,    \* main's local: the parsed birth date, <<>> before
    star,           \* the Star in use (main's local "star", or self), <<>> if none
    row,            \* the row (the constructor's arguments) star was built from
    frame,          \* the activation of when_will_light_hit: emit_date, light_years_traveled
    arrival,        \* main: the value of the call of line 160, <<>> before
    future_tense_modifier,  \* main's local of line 159
    output,         \* the lines printed so far
    ret             \* the outcome of the last call that finished

vars == <<CONST_ABBREV, catalog, now, pc, conn, date_object, star, row, frame,
          arrival, future_tense_modifier, output, ret>>

---------------------------------------------------------------------------
(* Constants of the program and of the datetime library. *)

\* line 11: seconds in a Julian year
SECS_IN_YEAR == 31557600

\* line 13: 3.26163344, in units of 1e-8
LIGHT_YEARS_IN_1_PARSEC == 326163344

\* the scale of LIGHT_YEARS_IN_1_PARSEC
ParsecScale == 10^8

\* line 130: 365.25, in hundredths
DAYS_IN_YEAR == 36525

\* lines 66, 68: 0.35 and 0.8, in hundredths
BLUE_BELOW == 35

YELLOW_BELOW == 80

\* line 99: 6.5, in hundredths
VISIBLE_BELOW == 650

\* timedelta.total_seconds() of one day (line 139)
SECS_IN_DAY == 86400

\* datetime.date.min.toordinal() and datetime.date.max.toordinal()
MINORDINAL == 1

MAXORDINAL == 3652059

\* fixed-point units: 1e-5 year / light-year / parsec, 1e-2 day
Resolution == 10^5

DayTicks == 10^2

---------------------------------------------------------------------------
(* Float arithmetic. *)

Abs(x) == IF x < 0 THEN -x ELSE x

Sign(x) == IF x < 0 THEN -1 ELSE 1

\* <<q, r>> with x*a = q*b + r and 0 <= r < b, for x, a >= 0 and b > 0,
\* computed by doubling so that no intermediate value exceeds 3*b.
RECURSIVE MulDivQR(_, _, _)
MulDivQR(x, a, b) ==
    IF a = 0 THEN <<0, 0>>
    ELSE LET h   == MulDivQR(x, a \div 2, b)
             add == IF a % 2 = 1 THEN x ELSE 0
             r   == 2 * h[2] + (add % b)
         IN  <<2 * h[1] + (add \div b) + (r \div b), r % b>>

\* x * a / b rounded to the nearest integer, half away from zero
FMulDiv(x, a, b) ==
    LET qr == MulDivQR(Abs(x), a, b)
    IN  Sign(x) * (qr[1] + (IF 2 * qr[2] >= b THEN 1 ELSE 0))

---------------------------------------------------------------------------
(* Line 16.  The name of Boo is written without its diacritic. *)

ConstellationTable ==
    [c \in {"And", "Ant", "Aps", "Aqr", "Aql", "Ara", "Ari", "Aur", "Boo", "Cae",
            "Cam", "Cnc", "CVn", "CMa", "CMi", "Cap", "Car", "Cas", "Cen", "Cep",
            "Cet", "Cha", "Cir", "Col", "Com", "CrA", "CrB", "Crv", "Crt", "Cru",
            "Cyg", "Del", "Dor", "Dra", "Equ", "Eri", "For", "Gem", "Gru", "Her",
            "Hor", "Hya", "Hyi", "Ind", "Lac", "Leo", "LMi", "Lep", "Lib", "Lup",
            "Lyn", "Lyr", "Men", "Mic", "Mon", "Mus", "Nor", "Oct", "Oph", "Ori",
            "Pav", "Peg", "Per", "Phe", "Pic", "Psc", "PsA", "Pup", "Pyx", "Ret",
            "Sge", "Sgr", "Sco", "Scl", "Sct", "Ser", "Sex", "Tau", "Tel", "Tri",
            "TrA", "Tuc", "UMa", "UMi", "Vel", "Vir", "Vol", "Vul"} |->
     CASE c = "And" -> "Andromeda"       [] c = "Ant" -> "Antlia"
       [] c = "Aps" -> "Apus"            [] c = "Aqr" -> "Aquarius"
       [] c = "Aql" -> "Aquila"          [] c = "Ara" -> "Ara"
       [] c = "Ari" -> "Aries"           [] c = "Aur" -> "Auriga"
       [] c = "Boo" -> "Bootes"          [] c = "Cae" -> "Caelum"
       [] c = "Cam" -> "Camelopardalis"  [] c = "Cnc" -> "Cancer"
       [] c = "CVn" -> "Canes Venatici"  [] c = "CMa" -> "Canis Major"
       [] c = "CMi" -> "Canis Minor"     [] c = "Cap" -> "Capricornus"
       [] c = "Car" -> "Carina"          [] c = "Cas" -> "Cassiopeia"
       [] c = "Cen" -> "Centaurus"       [] c = "Cep" -> "Cepheus"
       [] c = "Cet" -> "Cetus"           [] c = "Cha" -> "Chamaeleon"
       [] c = "Cir" -> "Circinus"        [] c = "Col" -> "Columba"
       [] c = "Com" -> "Coma Berenices"  [] c = "CrA" -> "Corona Australis"
       [] c = "CrB" -> "Corona Borealis" [] c = "Crv" -> "Corvus"
       [] c = "Crt" -> "Crater"          [] c = "Cru" -> "Crux"
       [] c = "Cyg" -> "Cygnus"          [] c = "Del" -> "Delphinus"
       [] c = "Dor" -> "Dorado"          [] c = "Dra" -> "Draco"
       [] c = "Equ" -> "Equuleus"        [] c = "Eri" -> "Eridanus"
       [] c = "For" -> "Fornax"          [] c = "Gem" -> "Gemini"
       [] c = "Gru" -> "Grus"            [] c = "Her" -> "Hercules"
       [] c = "Hor" -> "Horologium"      [] c = "Hya" -> "Hydra"
       [] c = "Hyi" -> "Hydrus"          [] c = "Ind" -> "Indus"
       [] c = "Lac" -> "Lacerta"         [] c = "Leo" -> "Leo"
       [] c = "LMi" -> "Leo Minor"       [] c = "Lep" -> "Lepus"
       [] c = "Lib" -> "Libra"           [] c = "Lup" -> "Lupus"
       [] c = "Lyn" -> "Lynx"            [] c = "Lyr" -> "Lyra"
       [] c = "Men" -> "Mensa"           [] c = "Mic" -> "Microscopium"
       [] c = "Mon" -> "Monoceros"       [] c = "Mus" -> "Musca"
       [] c = "Nor" -> "Norma"           [] c = "Oct" -> "Octans"
       [] c = "Oph" -> "Ophiuchus"       [] c = "Ori" -> "Orion"
       [] c = "Pav" -> "Pavo"            [] c = "Peg" -> "Pegasus"
       [] c = "Per" -> "Perseus"         [] c = "Phe" -> "Phoenix"
       [] c = "Pic" -> "Pictor"          [] c = "Psc" -> "Pisces"
       [] c = "PsA" -> "Piscis Austrinus" [] c = "Pup" -> "Puppis"
       [] c = "Pyx" -> "Pyxis"           [] c = "Ret" -> "Reticulum"
       [] c = "Sge" -> "Sagitta (not to be confused with Sagittarius)"
       [] c = "Sgr" -> "Sagittarius"     [] c = "Sco" -> "Scorpius"
       [] c = "Scl" -> "Sculptor"        [] c = "Sct" -> "Scutum"
       [] c = "Ser" -> "Serpens"         [] c = "Sex" -> "Sextans"
       [] c = "Tau" -> "Taurus"          [] c = "Tel" -> "Telescopium"
       [] c = "Tri" -> "Triangulum"      [] c = "TrA" -> "Triangulum Australe"
       [] c = "Tuc" -> "Tucana"          [] c = "UMa" -> "Ursa Major"
       [] c = "UMi" -> "Ursa Minor"      [] c = "Vel" -> "Vela"
       [] c = "Vir" -> "Virgo"           [] c = "Vol" -> "Volans"
       [] c = "Vul" -> "Vulpecula"]

---------------------------------------------------------------------------
(* Outcomes of a call. *)

Return(v) == [kind |-> "return", val |-> v]

Raise(e) == [kind |-> "raise", val |-> e]

---------------------------------------------------------------------------
(* class Star, lines 18-131. *)

\* str(n) of line 52
Str(n) == ToString(n)

\* Star.__init__ recording the bare number: self._hip_id = str(hip_id)
StarInitBareId(database_id, hip_id, gl_id, proper_name, distance, magnitude, color, constellation) ==
    [_database_id   |-> database_id,
     _gl_id         |-> gl_id,
     _distance      |-> distance,
     _proper_name   |-> proper_name,
     _magnitude     |-> magnitude,
     _color         |-> color,
     _constellation |-> constellation,
     _hip_id        |-> IF hip_id # <<>> THEN Str(hip_id[1]) ELSE ""]

\* Star.__init__, lines 23-57.  hip_id is <<>> for '' and <<n>> for the number n.
StarInit(database_id, hip_id, gl_id, proper_name, distance, magnitude, color, constellation) ==
    [_database_id   |-> database_id,
     _gl_id         |-> gl_id,
     _distance      |-> distance,
     _proper_name   |-> proper_name,
     _magnitude     |-> magnitude,
     _color         |-> color,
     _constellation |-> constellation,
     _hip_id        |-> IF hip_id # <<>> THEN "HIP " \o Str(hip_id[1]) ELSE ""]

\* Star(*row) of line 150: the eight columns of a row, in order
StarFromRow(r) ==
    StarInit(r[1], r[2], r[3], r[4], r[5], r[6], r[7], r[8])

\* get_color with the first comparison written <= 0.35
get_color_inclusive(self) ==
    IF self._color # <<>> /\ self._color[1] <= BLUE_BELOW THEN Return("blue")
    ELSE IF self._color # <<>> /\ self._color[1] < YELLOW_BELOW THEN Return("yellow")
    ELSE Return("red")

\* Star.get_color, lines 59-70.  _color is <<>> for '' and <<c>> for the index c.
get_color(self) ==
    IF self._color # <<>> /\ self._color[1] < BLUE_BELOW THEN Return("blue")
    ELSE IF self._color # <<>> /\ self._color[1] < YELLOW_BELOW THEN Return("yellow")
    ELSE Return("red")

\* Star.has_proper_name, lines 72-76
has_proper_name(self) == Return(self._proper_name # "")

\* Star.has_constellation, lines 78-82
has_constellation(self) == Return(self._constellation # "")

\* get_constellation written with dict.get(code, ''): no KeyError
get_constellation_or_empty(self, table) ==
    IF self._constellation \in DOMAIN table
    THEN Return(table[self._constellation])
    ELSE Return("")

\* Star.get_constellation, lines 84-89: a dict subscript, KeyError on a missing key
get_constellation(self, table) ==
    IF self._constellation \in DOMAIN table
    THEN Return(table[self._constellation])
    ELSE Raise("KeyError")

\* Star.is_visible, lines 91-99
is_visible(self) == Return(self._magnitude < VISIBLE_BELOW)

\* Star.get_identifier, lines 101-112
get_identifier(self) ==
    IF self._hip_id # "" THEN Return(self._hip_id) ELSE Return(self._gl_id)

\* Star.get_distance_in_lightyears, lines 114-118
get_distance_in_lightyears(self) ==
    FMulDiv(self._distance, LIGHT_YEARS_IN_1_PARSEC, ParsecScale)

\* years_since_date, lines 134-139, with the clock reading "clock":
\* (clock.date() - date).total_seconds() / SECS_IN_YEAR
years_since_date(date, clock) ==
    FMulDiv((clock[1] - date) * SECS_IN_DAY, Resolution, SECS_IN_YEAR)

\* line 130: the days of the timedelta, in ticks of a day
\* (get_distance_in_lightyears() - light_years_traveled) * 365.25
TimedeltaDays(self, light_years_traveled) ==
    FMulDiv(get_distance_in_lightyears(self) - light_years_traveled,
            DAYS_IN_YEAR, Resolution)

\* floor division (the day a number of ticks falls in)
FloorDiv(x, d) == IF x >= 0 THEN x \div d ELSE -((-x + d - 1) \div d)

\* line 131: (datetime.datetime.now() + timedelta).date(), with the clock
\* reading "clock"; datetime raises OverflowError outside year 1 .. 9999
AddAndDate(clock, days) ==
    LET ord == clock[1] + FloorDiv(clock[2] + days, DayTicks)
    IN  IF ord < MINORDINAL \/ ord > MAXORDINAL
        THEN Raise("OverflowError")
        ELSE Return(ord)

---------------------------------------------------------------------------
(* get_star_from_years, lines 141-150. *)

\* the bound parameter of line 149: light_years / LIGHT_YEARS_IN_1_PARSEC
ToParsecs(light_years) ==
    FMulDiv(light_years, ParsecScale, LIGHT_YEARS_IN_1_PARSEC)

\* the ORDER BY expression written without ABS: ? - distance
OrderKeySigned(param, r) == param - r[5]

\* the ORDER BY expression of line 149 for one row: ABS(? - distance)
OrderKey(param, r) == Abs(param - r[5])

\* The rows that "ORDER BY ABS(? - distance) LIMIT 1" can deliver: SQL leaves
\* the order among equal keys open, so any row of the least key.
QueryRows(param, rows) ==
    {i \in DOMAIN rows :
        \A j \in DOMAIN rows : OrderKey(param, rows[i]) <= OrderKey(param, rows[j])}

\* The outcomes of get_star_from_years(light_years, cursor over rows):
\* fetchone() gives None on an empty result and Star(*None) raises TypeError.
\* A returned Star is given with the row it was built from.
get_star_from_years(light_years, rows) ==
    IF rows = <<>>
    THEN {Raise("TypeError")}
    ELSE {Return([star |-> StarFromRow(rows[i]), row |-> rows[i]]) :
             i \in QueryRows(ToParsecs(light_years), rows)}

---------------------------------------------------------------------------
(* datetime.datetime.strptime(date_str, "%m/%d/%Y").date(), line 156.      *)
(* A line of input is a sequence of characters.                            *)

DigitValue(c) ==
    CASE c = "0" -> 0 [] c = "1" -> 1 [] c = "2" -> 2 [] c = "3" -> 3 [] c = "4" -> 4
      [] c = "5" -> 5 [] c = "6" -> 6 [] c = "7" -> 7 [] c = "8" -> 8 [] c = "9" -> 9

IsNumber(f) ==
    /\ f # <<>>
    /\ \A i \in DOMAIN f : f[i] \in {"0", "1", "2", "3", "4", "5", "6", "7", "8", "9"}

RECURSIVE Number(_)
Number(f) ==
    IF f = <<>> THEN 0
    ELSE 10 * Number(SubSeq(f, 1, Len(f) - 1)) + DigitValue(f[Len(f)])

IsLeap(y) == y % 4 = 0 /\ (y % 100 # 0 \/ y % 400 = 0)

DaysInMonth(y, m) ==
    IF m = 2 THEN (IF IsLeap(y) THEN 29 ELSE 28)
    ELSE IF m \in {4, 6, 9, 11} THEN 30 ELSE 31

RECURSIVE DaysBeforeMonth(_, _)
DaysBeforeMonth(y, m) ==
    IF m = 1 THEN 0 ELSE DaysBeforeMonth(y, m - 1) + DaysInMonth(y, m - 1)

\* date(y, m, d).toordinal()
Ordinal(y, m, d) ==
    (y - 1) * 365 + ((y - 1) \div 4) - ((y - 1) \div 100) + ((y - 1) \div 400)
    + DaysBeforeMonth(y, m) + d

\* The outcome of strptime(s, "%m/%d/%Y").date(): the date, or ValueError when
\* s is not month/day/four-digit year or names no day of the calendar.
strptime(s) ==
    LET slashes == {i \in DOMAIN s : s[i] = "/"}
        a  == CHOOSE i \in slashes : \A j \in slashes : i <= j
        b  == CHOOSE i \in slashes : \A j \in slashes : i >= j
        mm == SubSeq(s, 1, a - 1)
        dd == SubSeq(s, a + 1, b - 1)
        yy == SubSeq(s, b + 1, Len(s))
    IN  IF /\ Cardinality(slashes) = 2
           /\ IsNumber(mm) /\ Len(mm) <= 2 /\ Number(mm) \in 1..12
           /\ IsNumber(dd) /\ Len(dd) <= 2 /\ Number(dd) >= 1
           /\ IsNumber(yy) /\ Len(yy) = 4 /\ Number(yy) >= 1
           /\ Number(dd) <= DaysInMonth(Number(yy), Number(mm))
        THEN Return(Ordinal(Number(yy), Number(mm), Number(dd)))
        ELSE Raise("ValueError")

---------------------------------------------------------------------------
(* The environment: the clock, the catalog, the input. *)

\* how many days the clock may run on after the first day
MaxDaysElapsed == 1

\* the day the clock starts at: 2026-11-05
StartDay == Ordinal(2026, 11, 5)

\* the times of day the clock is read at: midnight, noon, just before midnight
TimesOfDay == {0, DayTicks \div 2, DayTicks - 1}

ClockValues == (StartDay .. StartDay + MaxDaysElapsed) \X TimesOfDay

Later(c1, c2) == c2[1] > c1[1] \/ (c2[1] = c1[1] /\ c2[2] > c1[2])

\* rows of "stars": id, hip, gl, proper, dist (parsecs), mag, ci (color), con
RowA == <<1, <<32349>>, "Gl 244", "Sirius", 1 * Resolution, -144, <<0>>, "CMa">>

RowB == <<2, <<>>, "Gl 65", "", 2 * Resolution, 1205, <<>>, "">>

RowC == <<3, <<439>>, "Gl 1", "", 5 * Resolution, 853, <<146>>, "Scl">>

RowD == <<4, <<>>, "Gl 2", "", 3 * Resolution, 990, <<150>>, "And">>

RowFar == <<5, <<999>>, "", "", 2500 * Resolution, 900, <<>>, "">>

Catalogs == {<<>>, <<RowA, RowB, RowC>>, <<RowD, RowA>>, <<RowFar>>}

\* what the user may type at the prompt of line 155
InputLines ==
    { <<"0", "8", "/", "0", "2", "/", "2", "0", "2", "3">>,
      <<"1", "1", "/", "5", "/", "2", "0", "2", "6">>,
      <<"0", "2", "/", "3", "0", "/", "2", "0", "2", "0">>,
      <<"2", "0", "2", "3", "-", "0", "8", "-", "0", "2">> }

\* the system clock runs on (it is never set back)
Tick ==
    /\ pc \notin {"done", "raised"}
    /\ \E c \in ClockValues : Later(now, c) /\ now' = c
    /\ UNCHANGED <<CONST_ABBREV, catalog, pc, conn, date_object, star, row, frame,
                   arrival, future_tense_modifier, output, ret>>

---------------------------------------------------------------------------
(* Star.when_will_light_hit, lines 120-131, in its two readings of the clock. *)

\* line 129: light_years_traveled = years_since_date(emit_date)
Enter_when_will_light_hit(emit_date) ==
    frame' = [emit_date |-> emit_date,
              light_years_traveled |-> years_since_date(emit_date, now)]

\* lines 130-131: the outcome of the call
Leave_when_will_light_hit ==
    AddAndDate(now, TimedeltaDays(star, frame.light_years_traveled))

NoFrame == <<>>

---------------------------------------------------------------------------
(* main, lines 152-164. *)

Did(op, args, outcome) ==
    [op |-> op, args |-> args, kind |-> outcome.kind, val |-> outcome.val, at |-> now]

NoCall == [op |-> "none", args |-> <<>>, kind |-> "none", val |-> <<>>, at |-> <<>>]

\* An exception leaves the with block of line 153: Connection.__exit__ rolls
\* back and does not close the connection; the exception propagates out of
\* main, whose frame (and so conn) the traceback keeps.
MainRaises(e) ==
    /\ pc' = "raised"
    /\ ret' = Did("main", <<>>, Raise(e))
    /\ conn' = conn

\* lines 153-154: sqlite3.connect('stars.db'), conn.cursor()
Connect ==
    /\ pc = "l153"
    /\ conn' = "open"
    /\ pc' = "l155"
    /\ UNCHANGED <<CONST_ABBREV, catalog, now, date_object, star, row, frame,
                   arrival, future_tense_modifier, output, ret>>

\* lines 155-156: input(...) and strptime
ReadDate ==
    /\ pc = "l155"
    /\ \E date_str \in InputLines :
         LET parsed == strptime(date_str)
         IN  IF parsed.kind = "raise"
             THEN MainRaises(parsed.val) /\ UNCHANGED date_object
             ELSE /\ date_object' = parsed.val
                  /\ pc' = "l157"
                  /\ UNCHANGED <<conn, ret>>
    /\ UNCHANGED <<CONST_ABBREV, catalog, now, star, row, frame, arrival,
                   future_tense_modifier, output>>

\* line 157: star = get_star_from_years(years_since_date(date_object), c)
FindStar ==
    /\ pc = "l157"
    /\ \E found \in get_star_from_years(years_since_date(date_object, now), catalog) :
         IF found.kind = "raise"
         THEN MainRaises(found.val) /\ UNCHANGED <<star, row>>
         ELSE /\ star' = found.val.star
              /\ row' = found.val.row
              /\ pc' = "l158"
              /\ UNCHANGED <<conn, ret>>
    /\ UNCHANGED <<CONST_ABBREV, catalog, now, date_object, frame, arrival,
                   future_tense_modifier, output>>

\* line 158: print("Your current birth star is " + star.get_identifier() + ".")
PrintStar ==
    /\ pc = "l158"
    /\ output' = Append(output, "Your current birth star is " \o get_identifier(star).val \o ".")
    /\ pc' = "l159"
    /\ UNCHANGED <<CONST_ABBREV, catalog, now, conn, date_object, star, row, frame,
                   arrival, future_tense_modifier, ret>>

\* lines 159-160: future_tense_modifier = ""; the call of when_will_light_hit
\* in the condition reaches line 129
FirstCall129 ==
    /\ pc = "l159"
    /\ future_tense_modifier' = ""
    /\ Enter_when_will_light_hit(date_object)
    /\ pc' = "l160_131"
    /\ UNCHANGED <<CONST_ABBREV, catalog, now, conn, date_object, star, row,
                   arrival, output, ret>>

\* line 160: the call of when_will_light_hit in the condition returns or raises
FirstCall131 ==
    /\ pc = "l160_131"
    /\ LET hit == Leave_when_will_light_hit
       IN  IF hit.kind = "raise"
           THEN MainRaises(hit.val) /\ UNCHANGED arrival
           ELSE /\ arrival' = <<hit.val>>
                /\ pc' = "l160"
                /\ UNCHANGED <<conn, ret>>
    /\ frame' = NoFrame
    /\ UNCHANGED <<CONST_ABBREV, catalog, now, date_object, star, row,
                   future_tense_modifier, output>>

\* lines 160-162: if years_since_date(...) < 0: future_tense_modifier = "will "
DecideTense ==
    /\ pc = "l160"
    /\ future_tense_modifier' =
         IF years_since_date(arrival[1], now) < 0 THEN "will " ELSE ""
    /\ pc' = "l164"
    /\ UNCHANGED <<CONST_ABBREV, catalog, now, conn, date_object, star, row, frame,
                   arrival, output, ret>>

\* line 164: the call of when_will_light_hit in the argument of print reaches line 129
SecondCall129 ==
    /\ pc = "l164"
    /\ Enter_when_will_light_hit(date_object)
    /\ pc' = "l164_131"
    /\ UNCHANGED <<CONST_ABBREV, catalog, now, conn, date_object, star, row,
                   arrival, future_tense_modifier, output, ret>>

\* The with block is left without an exception and main returns:
\* Connection.__exit__ commits and does not close the connection; the last
\* reference to conn goes with main's frame, and whether the connection is
\* finalised then is up to the interpreter.
MainReturns ==
    /\ pc' = "done"
    /\ ret' = Did("main", <<>>, Return(<<>>))
    /\ conn' \in {"open", "closed"}

\* lines 163-164: the second call returns or raises; print(... + str(...)),
\* the end of the with block and of main.  The printed line is kept as
\* <<text, date>>, the date being the one str() renders.
PrintArrival ==
    /\ pc = "l164_131"
    /\ LET hit == Leave_when_will_light_hit
       IN  IF hit.kind = "raise"
           THEN MainRaises(hit.val) /\ UNCHANGED <<arrival, output>>
           ELSE /\ arrival' = Append(arrival, hit.val)
                /\ output' = Append(output,
                      <<"The light that left this star when you were born "
                          \o future_tense_modifier \o "hit the earth on ", hit.val>>)
                /\ MainReturns
    /\ frame' = NoFrame
    /\ UNCHANGED <<CONST_ABBREV, catalog, now, date_object, star, row,
                   future_tense_modifier>>

Init ==
    /\ CONST_ABBREV = ConstellationTable
    /\ catalog \in Catalogs
    /\ now \in {StartDay} \X TimesOfDay
    /\ pc = "l153"
    /\ conn = "none"
    /\ date_object = <<>>
    /\ star = <<>>
    /\ row = <<>>
    /\ frame = NoFrame
    /\ arrival = <<>>
    /\ future_tense_modifier = ""
    /\ output = <<>>
    /\ ret = NoCall

Next ==
    \/ Connect
    \/ ReadDate
    \/ FindStar
    \/ PrintStar
    \/ FirstCall129
    \/ FirstCall131
    \/ DecideTense
    \/ SecondCall129
    \/ PrintArrival
    \/ Tick

Spec == Init /\ [][Next]_vars

---------------------------------------------------------------------------
(* The functions and methods called directly.  pc is "api" between calls   *)
(* and "api_131" inside when_will_light_hit.                               *)

\* what a call that is one step leaves alone
apiRest == <<CONST_ABBREV, catalog, now, pc, conn, date_object, star, row, frame,
             arrival, future_tense_modifier, output>>

\* what main's variables are for a caller that is not main
NotInMain ==
    /\ CONST_ABBREV = ConstellationTable
    /\ pc = "api"
    /\ conn = "none"
    /\ date_object = <<>>
    /\ frame = NoFrame
    /\ arrival = <<>>
    /\ future_tense_modifier = ""
    /\ output = <<>>
    /\ ret = NoCall

---------------------------------------------------------------------------
(* SpecStar: a Star is built from arbitrary arguments and its getters are  *)
(* called in any order.                                                    *)

\* the arguments a Star is constructed from
StarRows ==
    { <<7, hip, gl, (IF hip = <<>> THEN "" ELSE "Sirius"), dist, mag, ci, con>> :
        hip \in {<<>>, <<0>>, <<32349>>},
        gl \in {"", "Gl 244"},
        dist \in {0, 1 * Resolution},
        mag \in {VISIBLE_BELOW - 1, VISIBLE_BELOW},
        ci \in {<<>>, <<BLUE_BELOW - 1>>, <<BLUE_BELOW>>, <<YELLOW_BELOW - 1>>, <<YELLOW_BELOW>>},
        con \in {"", "CMa", "Vul", "XYZ", "cma"} }

Call_get_color ==
    /\ pc = "api"
    /\ ret' = Did("get_color", <<>>, get_color(star))
    /\ UNCHANGED apiRest

Call_has_proper_name ==
    /\ pc = "api"
    /\ ret' = Did("has_proper_name", <<>>, has_proper_name(star))
    /\ UNCHANGED apiRest

Call_has_constellation ==
    /\ pc = "api"
    /\ ret' = Did("has_constellation", <<>>, has_constellation(star))
    /\ UNCHANGED apiRest

Call_get_constellation ==
    /\ pc = "api"
    /\ ret' = Did("get_constellation", <<>>, get_constellation(star, CONST_ABBREV))
    /\ UNCHANGED apiRest

Call_is_visible ==
    /\ pc = "api"
    /\ ret' = Did("is_visible", <<>>, is_visible(star))
    /\ UNCHANGED apiRest

Call_get_identifier ==
    /\ pc = "api"
    /\ ret' = Did("get_identifier", <<>>, get_identifier(star))
    /\ UNCHANGED apiRest

Call_get_distance_in_lightyears ==
    /\ pc = "api"
    /\ ret' = Did("get_distance_in_lightyears", <<>>, Return(get_distance_in_lightyears(star)))
    /\ UNCHANGED apiRest

StarInitial ==
    /\ NotInMain
    /\ catalog = <<>>
    /\ now = <<StartDay, 0>>
    /\ row \in StarRows
    /\ star = StarFromRow(row)

StarNext ==
    \/ Call_get_color
    \/ Call_has_proper_name
    \/ Call_has_constellation
    \/ Call_get_constellation
    \/ Call_is_visible
    \/ Call_get_identifier
    \/ Call_get_distance_in_lightyears

SpecStar == StarInitial /\ [][StarNext]_vars

---------------------------------------------------------------------------
(* SpecQuery: get_star_from_years is called with arbitrary distances on a  *)
(* cursor over an arbitrary catalog.                                       *)

\* the most rows a catalog holds
MaxRows == 3

\* the sequences of at most n distinct elements of S
RECURSIVE SeqsOfDistinct(_, _)
SeqsOfDistinct(S, n) ==
    IF n = 0 THEN {<<>>}
    ELSE LET shorter == SeqsOfDistinct(S, n - 1)
         IN  shorter \cup
             {Append(q[1], q[2]) : q \in {p \in shorter \X S :
                                            \A i \in DOMAIN p[1] : p[1][i] # p[2]}}

\* every catalog of up to MaxRows rows, in every storage order
QueryCatalogs == SeqsOfDistinct({RowA, RowB, RowC, RowD, RowFar}, MaxRows)

\* light_years arguments: 0, 1191 days of light, 2.0 * 3.26163344, 4 and 40
\* parsecs, and a negative one
Targets ==
    {0, years_since_date(StartDay - 1191, <<StartDay, 0>>),
     FMulDiv(2 * Resolution, LIGHT_YEARS_IN_1_PARSEC, ParsecScale),
     FMulDiv(4 * Resolution, LIGHT_YEARS_IN_1_PARSEC, ParsecScale),
     FMulDiv(40 * Resolution, LIGHT_YEARS_IN_1_PARSEC, ParsecScale),
     -Resolution}

Call_get_star_from_years ==
    /\ pc = "api"
    /\ \E light_years \in Targets :
         \E found \in get_star_from_years(light_years, catalog) :
            ret' = Did("get_star_from_years", <<light_years>>, found)
    /\ UNCHANGED apiRest

QueryInitial ==
    /\ NotInMain
    /\ catalog \in QueryCatalogs
    /\ now = <<StartDay, 0>>
    /\ row = <<>>
    /\ star = <<>>

QueryNext == Call_get_star_from_years

SpecQuery == QueryInitial /\ [][QueryNext]_vars

---------------------------------------------------------------------------
(* SpecLight: years_since_date and when_will_light_hit are called while    *)
(* the clock runs.                                                         *)

\* the distances of the stars, in parsecs: 0, 0.967, 1 and 2500
LightRows ==
    { <<7, <<>>, "Gl 244", "", dist, 0, <<>>, "">> :
        dist \in {0, 96700, 1 * Resolution, 2500 * Resolution} }

\* date arguments: 1191 and 1152 days before the first day, that day, the day after
EmitDates == {StartDay - 1191, StartDay - 1152, StartDay, StartDay + 1}

Call_years_since_date ==
    /\ pc = "api"
    /\ \E date \in EmitDates :
         ret' = Did("years_since_date", <<date>>, Return(years_since_date(date, now)))
    /\ UNCHANGED apiRest

\* when_will_light_hit(emit_date) is entered and reads the clock at line 129
Call_when_will_light_hit ==
    /\ pc = "api"
    /\ \E emit_date \in EmitDates : Enter_when_will_light_hit(emit_date)
    /\ pc' = "api_131"
    /\ UNCHANGED <<CONST_ABBREV, catalog, now, conn, date_object, star, row,
                   arrival, future_tense_modifier, output, ret>>

\* when_will_light_hit reads the clock at line 131 and returns or raises
Return_when_will_light_hit ==
    /\ pc = "api_131"
    /\ ret' = Did("when_will_light_hit", <<frame.emit_date>>, Leave_when_will_light_hit)
    /\ frame' = NoFrame
    /\ pc' = "api"
    /\ UNCHANGED <<CONST_ABBREV, catalog, now, conn, date_object, star, row,
                   arrival, future_tense_modifier, output>>

LightInitial ==
    /\ NotInMain
    /\ catalog = <<>>
    /\ now \in {StartDay} \X TimesOfDay
    /\ row \in LightRows
    /\ star = StarFromRow(row)

LightNext ==
    \/ Call_years_since_date
    \/ Call_when_will_light_hit
    \/ Return_when_will_light_hit
    \/ Tick

SpecLight == LightInitial /\ [][LightNext]_vars

---------------------------------------------------------------------------
(* Claims about main, checked under Spec. *)

MainEnded == pc \in {"done", "raised"}

\* C3: whenever main has terminated, normally or by an exception (a date
\* that does not parse, an empty catalog, an error while the result is
\* computed or printed), the sqlite connection it acquired has been released.
C3_ConnectionReleased == MainEnded => conn = "closed"

\* C4: no partial results: when main has terminated, it has printed both
\* lines (the identifier line and the arrival line) or none.
C4_NoPartialOutput == MainEnded => Len(output) \in {0, 2}

\* C5: in every successful run of main the arrival sentence says "will hit"
\* exactly when the date it prints is after the current date at the time of
\* printing, and "hit" otherwise.
C5_TenseMatchesPrintedDate ==
    pc = "done" => (future_tense_modifier = "will " <=> output[2][2] > now[1])

---------------------------------------------------------------------------
(* Claims about get_star_from_years, checked under SpecQuery. *)

\* the star get_star_from_years returned was built from row i of the catalog
BuiltFromRow(i) ==
    /\ ret.val.row = catalog[i]
    /\ ret.val.star = StarFromRow(catalog[i])

\* the parsec distance of row i is as close to target / 3.26163344 as any row's
Nearest(i, target) ==
    LET parsecs == FMulDiv(target, ParsecScale, LIGHT_YEARS_IN_1_PARSEC)
    IN  \A j \in DOMAIN catalog :
            Abs(parsecs - catalog[i][5]) <= Abs(parsecs - catalog[j][5])

\* C1: on a non-empty catalog, for every target distance in light-years,
\* get_star_from_years returns a Star built from a catalog row whose parsec
\* distance minimises |target / 3.26163344 - distance| over all rows.
C1_ReturnsNearestRow ==
    (ret.op = "get_star_from_years" /\ catalog # <<>>) =>
        /\ ret.kind = "return"
        /\ \E i \in DOMAIN catalog : BuiltFromRow(i) /\ Nearest(i, ret.args[1])

\* the catalog of distances 1.0, 2.0, 5.0 asked for 2.0 * 3.26163344
\* light-years gives the row of distance 2.0
C1_Witness ==
    /\ catalog = <<RowA, RowB, RowC>>
    /\ ret.op = "get_star_from_years"
    /\ ret.args[1] = FMulDiv(2 * Resolution, LIGHT_YEARS_IN_1_PARSEC, ParsecScale)
    /\ ret.kind = "return"
    /\ ret.val.row = RowB

\* C2: on a catalog of zero rows get_star_from_years fails, for every
\* target, with the dedicated not-found error and no other kind of error.
C2_EmptyCatalogNotFound ==
    (ret.op = "get_star_from_years" /\ catalog = <<>>) =>
        (ret.kind = "raise" /\ ret.val = "NotFound")

---------------------------------------------------------------------------
(* Claims about the Star getters, checked under SpecStar.  row holds the   *)
(* arguments the Star was constructed from.                                *)

\* C7: get_color returns "blue" iff the color index is present and < 0.35,
\* "yellow" iff it is present, >= 0.35 and < 0.8, and "red" in every other
\* case (present and >= 0.8, or absent); it never fails.
C7_ColorClasses ==
    ret.op = "get_color" =>
        LET present == row[7] # <<>>
            index   == row[7][1]
        IN  /\ ret.kind = "return"
            /\ ret.val \in {"blue", "yellow", "red"}
            /\ ret.val = "blue" <=> (present /\ index < BLUE_BELOW)
            /\ ret.val = "yellow" <=>
                   (present /\ index >= BLUE_BELOW /\ index < YELLOW_BELOW)
            /\ ret.val = "red" <=> (~present \/ index >= YELLOW_BELOW)

\* a color index of exactly 0.35 has been classified, as yellow
C7_Witness ==
    /\ ret.op = "get_color"
    /\ row[7] = <<BLUE_BELOW>>
    /\ ret.val = "yellow"

\* C8: get_identifier returns "HIP " followed by the Hipparcos id when that
\* id was given at construction, and the Gliese id unchanged when it was
\* given as ''; it never returns the bare Hipparcos id.
C8_PreferredIdentifier ==
    ret.op = "get_identifier" =>
        /\ ret.kind = "return"
        /\ IF row[2] # <<>>
           THEN ret.val = "HIP " \o ToString(row[2][1]) /\ ret.val # ToString(row[2][1])
           ELSE ret.val = row[3]

\* the Star of Hipparcos id 32349 has been asked for its identifier
C8_Witness ==
    /\ ret.op = "get_identifier"
    /\ row[2] = <<32349>>
    /\ ret.val = "HIP 32349"

C10_EmptyConstellation ==
    (ret.op = "get_constellation" /\ row[8] = "") =>
        (ret.kind = "return" /\ ret.val = "")

---------------------------------------------------------------------------
(* Claims about when_will_light_hit, checked under SpecLight. *)

\* the light's travel time in ticks of a day: distance in light-years * 365.25
TravelDays(self) == FMulDiv(get_distance_in_lightyears(self), DAYS_IN_YEAR, Resolution)

\* C6: the date when_will_light_hit(emit_date) returns differs from
\* emit_date + distance in light-years * 365.25 days by at most one day,
\* whatever the current moment; and for a star whose distance in
\* light-years equals years_since_date(emit_date) it is the current date,
\* within one day.
C6_ArrivalWithinOneDay ==
    (ret.op = "when_will_light_hit" /\ ret.kind = "return") =>
        LET emit_date == ret.args[1]
        IN  /\ Abs((ret.val - emit_date) * DayTicks - TravelDays(star)) <= DayTicks
            /\ get_distance_in_lightyears(star) = years_since_date(emit_date, ret.at)
                   => Abs(ret.val - ret.at[1]) <= 1

=============================================================================
